---- MODULE Spec2Model ----
(***************************************************************************)
(* GemYum auxiliary scripts: the nutrition record store (the SQLite        *)
(* `foods` table), the importers that write to it, the glycemic-index      *)
(* estimator find_gi_for_food and the glycemic-load calculator.            *)
(*                                                                         *)
(* Conventions of the model                                                *)
(*   - Python None and SQL NULL are the empty tuple None; a present value  *)
(*     v is the one-element tuple <<v>> (Some(v)).                         *)
(*   - Food names are TLA+ strings; characters are one-character strings.  *)
(*   - Carbohydrate amounts are whole grams.  A glycemic load, which the   *)
(*     code rounds to one decimal place, is held in tenths: 29.7 is 297.   *)
(*   - The rows of the `foods` table are a sequence in ascending id order  *)
(*     (AUTOINCREMENT never reuses an id, so insertion appends).           *)
(*   - foods is the table as the connection at work sees it.  While a      *)
(*     transaction is open, txn holds the table as it was when the         *)
(*     transaction began, which is the table on disk; a commit sets txn to *)
(*     None, and closing the connection puts that table back.              *)
(***************************************************************************)
EXTENDS Integers, Sequences, FiniteSets, TLC

None == <<>>
Some(v) == <<v>>

(***************************************************************************)
(* Strings as Python handles them                                          *)
(***************************************************************************)
UpperCase == "ABCDEFGHIJKLMNOPQRSTUVWXYZ"
LowerCase == "abcdefghijklmnopqrstuvwxyz"

\* str.lower() on one character
LowerChar(c) ==
  IF \E i \in 1..Len(UpperCase) : SubSeq(UpperCase, i, i) = c
  THEN LET i == CHOOSE j \in 1..Len(UpperCase) : SubSeq(UpperCase, j, j) = c
       IN SubSeq(LowerCase, i, i)
  ELSE c

\* a plausible slip: the name compared as it is written, not in lowercase
lower_skipped(s) == s

RECURSIVE lower(_)
\* str.lower()
lower(s) == IF Len(s) = 0 THEN "" ELSE LowerChar(SubSeq(s, 1, 1)) \o lower(Tail(s))

\* the characters str.split() treats as separators
IsSpace(c) == c \in {" ", "\t", "\n"}

\* `sub in s` for strings
Contains(sub, s) ==
  \E i \in 1..(Len(s) - Len(sub) + 1) : SubSeq(s, i, i + Len(sub) - 1) = sub

\* str.strip() without arguments: the string without its leading and
\* trailing whitespace
strip(s) ==
  LET kept == {i \in 1..Len(s) : ~IsSpace(SubSeq(s, i, i))}
  IN IF kept = {} THEN ""
     ELSE SubSeq(s, CHOOSE i \in kept : \A j \in kept : i <= j,
                    CHOOSE i \in kept : \A j \in kept : j <= i)

RECURSIVE split(_)
\* str.split() without arguments: the maximal runs of non-whitespace, in order
split(s) ==
  IF Len(s) = 0 THEN <<>>
  ELSE IF IsSpace(SubSeq(s, 1, 1)) THEN split(Tail(s))
  ELSE LET stops == {i \in 1..Len(s) : IsSpace(SubSeq(s, i, i))}
           n == IF stops = {} THEN Len(s) + 1
                ELSE CHOOSE i \in stops : \A j \in stops : i <= j
       IN <<SubSeq(s, 1, n - 1)>> \o split(SubSeq(s, n, Len(s)))

(***************************************************************************)
(* Reference table, in the order of the dict literal                       *)
(***************************************************************************)
GLYCEMIC_INDEX_MAP ==
  <<
    <<"apple", 36>>, <<"pear", 38>>, <<"orange", 43>>, <<"grapefruit", 25>>,
    <<"cherries", 22>>, <<"plum", 39>>, <<"peach", 42>>, <<"strawberries", 40>>,
    <<"strawberry", 40>>, <<"blackberries", 25>>, <<"raspberries", 32>>, <<"blueberries", 53>>,
    <<"grapes", 46>>, <<"kiwi", 53>>, <<"avocado", 15>>, <<"mango", 60>>,
    <<"papaya", 59>>, <<"pineapple", 59>>, <<"cantaloupe", 65>>, <<"raisins", 64>>,
    <<"watermelon", 72>>, <<"dates", 103>>, <<"broccoli", 15>>, <<"cauliflower", 15>>,
    <<"spinach", 15>>, <<"lettuce", 15>>, <<"kale", 15>>, <<"cabbage", 10>>,
    <<"mushroom", 15>>, <<"tomato", 15>>, <<"cucumber", 15>>, <<"bell pepper", 15>>,
    <<"pepper", 15>>, <<"asparagus", 15>>, <<"celery", 15>>, <<"zucchini", 15>>,
    <<"eggplant", 15>>, <<"green beans", 15>>, <<"carrots", 35>>, <<"carrot", 35>>,
    <<"sweet potato", 54>>, <<"yam", 54>>, <<"corn", 60>>, <<"beets", 61>>,
    <<"beetroot", 61>>, <<"potato", 85>>, <<"russet potato", 85>>, <<"instant mashed potato", 87>>,
    <<"pumpkin", 75>>, <<"quinoa", 53>>, <<"steel cut oats", 42>>, <<"oatmeal", 55>>,
    <<"oats", 55>>, <<"barley", 28>>, <<"bulgur", 48>>, <<"buckwheat", 54>>,
    <<"brown rice", 68>>, <<"basmati rice", 58>>, <<"couscous", 65>>, <<"wild rice", 57>>,
    <<"white rice", 73>>, <<"jasmine rice", 89>>, <<"instant rice", 87>>, <<"rice cakes", 82>>,
    <<"cornflakes", 81>>, <<"corn flakes", 81>>, <<"rice krispies", 82>>, <<"cheerios", 74>>,
    <<"instant oatmeal", 79>>, <<"whole grain bread", 51>>, <<"whole wheat bread", 54>>, <<"sourdough bread", 54>>,
    <<"rye bread", 51>>, <<"pumpernickel", 46>>, <<"ezekiel bread", 36>>, <<"pita bread", 57>>,
    <<"naan", 62>>, <<"croissant", 67>>, <<"white bread", 75>>, <<"french bread", 95>>,
    <<"baguette", 95>>, <<"bagel", 72>>, <<"english muffin", 77>>, <<"hamburger bun", 75>>,
    <<"hot dog bun", 75>>, <<"whole wheat pasta", 42>>, <<"pasta", 49>>, <<"spaghetti", 49>>,
    <<"fettuccine", 47>>, <<"linguine", 49>>, <<"ravioli", 39>>, <<"tortellini", 50>>,
    <<"soba noodles", 46>>, <<"rice noodles", 61>>, <<"udon noodles", 62>>, <<"instant noodles", 70>>,
    <<"overcooked pasta", 70>>, <<"lentils", 32>>, <<"chickpeas", 28>>, <<"garbanzo beans", 28>>,
    <<"black beans", 30>>, <<"kidney beans", 24>>, <<"pinto beans", 39>>, <<"navy beans", 31>>,
    <<"soybeans", 16>>, <<"split peas", 25>>, <<"hummus", 6>>, <<"milk", 31>>,
    <<"skim milk", 32>>, <<"whole milk", 27>>, <<"yogurt", 33>>, <<"greek yogurt", 11>>,
    <<"plain yogurt", 14>>, <<"cottage cheese", 10>>, <<"cheese", 0>>, <<"cheddar", 0>>,
    <<"mozzarella", 0>>, <<"parmesan", 0>>, <<"butter", 0>>, <<"ice cream", 61>>,
    <<"frozen yogurt", 65>>, <<"chicken", 0>>, <<"beef", 0>>, <<"pork", 0>>,
    <<"fish", 0>>, <<"salmon", 0>>, <<"tuna", 0>>, <<"shrimp", 0>>,
    <<"eggs", 0>>, <<"egg", 0>>, <<"tofu", 15>>, <<"tempeh", 15>>,
    <<"almonds", 15>>, <<"almond", 15>>, <<"walnuts", 15>>, <<"walnut", 15>>,
    <<"cashews", 22>>, <<"cashew", 22>>, <<"peanuts", 14>>, <<"peanut", 14>>,
    <<"pistachios", 15>>, <<"pecans", 10>>, <<"macadamia", 10>>, <<"chia seeds", 1>>,
    <<"flax seeds", 1>>, <<"pumpkin seeds", 10>>, <<"sunflower seeds", 35>>, <<"dark chocolate", 23>>,
    <<"nuts", 15>>, <<"popcorn", 55>>, <<"milk chocolate", 49>>, <<"potato chips", 56>>,
    <<"tortilla chips", 63>>, <<"pretzels", 83>>, <<"crackers", 74>>, <<"rice crackers", 91>>,
    <<"jelly beans", 78>>, <<"gummy bears", 78>>, <<"donuts", 76>>, <<"donut", 76>>,
    <<"cookies", 77>>, <<"oreos", 77>>, <<"cake", 73>>, <<"muffin", 71>>,
    <<"water", 0>>, <<"coffee", 0>>, <<"tea", 0>>, <<"diet soda", 0>>,
    <<"almond milk", 25>>, <<"soy milk", 34>>, <<"orange juice", 50>>, <<"apple juice", 41>>,
    <<"cranberry juice", 68>>, <<"soda", 70>>, <<"cola", 70>>, <<"coca-cola", 70>>,
    <<"pepsi", 70>>, <<"sprite", 70>>, <<"gatorade", 78>>, <<"energy drink", 70>>,
    <<"french fries", 75>>, <<"fries", 75>>, <<"pizza", 60>>, <<"hamburger", 66>>,
    <<"cheeseburger", 66>>, <<"burrito", 55>>, <<"taco", 52>>, <<"fried chicken", 70>>,
    <<"pancakes", 67>>, <<"waffles", 76>>, <<"french toast", 75>>, <<"granola", 61>>,
    <<"muesli", 56>>, <<"ketchup", 55>>, <<"bbq sauce", 70>>, <<"honey", 61>>,
    <<"maple syrup", 54>>, <<"jam", 65>>, <<"peanut butter", 14>>, <<"nutella", 55>>
  >>

(***************************************************************************)
(* Bounds of the model                                                     *)
(***************************************************************************)
MaxRows == 2        \* rows the foods table may hold
MaxClock == 1       \* last tick of the wall clock
MaxPopularity == 20 \* largest popularity_score optimize_database may reach
MaxRuns == 2        \* process runs in which the estimator is called
MaxCalls == 2       \* calls of the estimator on one name
MaxWords == 2       \* words in a generated food name
MaxCarbs == 60      \* largest carbohydrate amount (grams) given to the calculator

VARIABLES
  foods,      \* the rows of the foods table, in ascending id order
  clock,      \* the wall clock (CURRENT_TIMESTAMP, datetime.now())
  last,       \* the operation that ran last on the store
  txn,        \* the table as it was when the open transaction began, or None
  glycemic_index_ref,  \* the rows of the glycemic_index_ref table
  conns,      \* the operations whose connection to the store is still open
  run,        \* number of the current process run
  giName,     \* the argument find_gi_for_food is called with
  giResults,  \* the results of the calls made so far for giName
  glIndex,    \* the glycemic index given to calculate_glycemic_load
  glCarbs,    \* the carbohydrate amount given to calculate_glycemic_load
  glResults,  \* the result of the call, once made
  tester      \* the test runner: its position, the device's pictures, the recording

\* The test runner before a test: nothing on the device, nothing recording.
idle_tester(use_ui_automator) ==
  [pc |-> "idle", image_path |-> None, device |-> {}, recording |-> FALSE,
   use_ui_automator |-> use_ui_automator, results |-> 0]

vars == <<foods, clock, last, txn, glycemic_index_ref, conns, run, giName, giResults, glIndex, glCarbs, glResults, tester>>
storeVars == <<foods, clock, last, txn, glycemic_index_ref, conns>>
giVars == <<run, giName, giResults>>
glVars == <<glIndex, glCarbs, glResults>>

Reverse(s) == [i \in 1..Len(s) |-> s[Len(s) + 1 - i]]

\* a plausible slip: the keys scanned in the iteration order of a set of
\* strings, which follows the str hashes; these are salted per process, so
\* the order differs from one process run to the next.
items_hash_order == IF run % 2 = 1 THEN GLYCEMIC_INDEX_MAP ELSE Reverse(GLYCEMIC_INDEX_MAP)

\* GLYCEMIC_INDEX_MAP.items(): a dict iterates in insertion order, which is
\* the order of the literal, in every process run.
items == GLYCEMIC_INDEX_MAP

\* `key in GLYCEMIC_INDEX_MAP`
InMap(key) == \E i \in 1..Len(GLYCEMIC_INDEX_MAP) : GLYCEMIC_INDEX_MAP[i][1] = key

\* GLYCEMIC_INDEX_MAP[key]
MapGet(key) ==
  GLYCEMIC_INDEX_MAP[CHOOSE i \in 1..Len(GLYCEMIC_INDEX_MAP) : GLYCEMIC_INDEX_MAP[i][1] = key][2]

\* any(term in food_lower for term in terms)
\* a plausible slip: all(...) in place of any(...)
AllIn(terms, food_lower) == \A term \in terms : Contains(term, food_lower)

AnyIn(terms, food_lower) == \E term \in terms : Contains(term, food_lower)

\* The "special cases for restaurant foods" if/elif chain.
special_cases(food_lower) ==
  IF AnyIn({"burger", "cheeseburger", "hamburger"}, food_lower) THEN Some(66)
  ELSE IF Contains("pizza", food_lower) THEN Some(60)
  ELSE IF AnyIn({"fries", "french fries"}, food_lower) THEN Some(75)
  ELSE IF Contains("salad", food_lower) /\ ~Contains("pasta", food_lower) THEN Some(15)
  ELSE IF Contains("grilled chicken", food_lower) \/ Contains("grilled fish", food_lower)
       THEN Some(0)
  ELSE IF AnyIn({"donut", "doughnut"}, food_lower) THEN Some(76)
  ELSE IF Contains("pancake", food_lower) THEN Some(67)
  ELSE IF Contains("waffle", food_lower) THEN Some(76)
  ELSE IF Contains("taco", food_lower) THEN Some(52)
  ELSE IF Contains("burrito", food_lower) THEN Some(55)
  ELSE IF Contains("sandwich", food_lower)
       THEN IF Contains("whole wheat", food_lower) \/ Contains("whole grain", food_lower)
            THEN Some(54)
            ELSE Some(70)
  ELSE IF Contains("wrap", food_lower) THEN Some(57)
  ELSE IF Contains("rice", food_lower)
       THEN IF Contains("brown", food_lower) THEN Some(68)
            ELSE IF Contains("fried", food_lower) THEN Some(75)
            ELSE Some(73)
  ELSE IF Contains("pasta", food_lower) \/ Contains("spaghetti", food_lower)
          \/ Contains("fettuccine", food_lower)
       THEN Some(49)
  ELSE IF Contains("noodle", food_lower)
       THEN IF Contains("rice", food_lower) THEN Some(61) ELSE Some(55)
  ELSE IF Contains("bread", food_lower)
       THEN IF AnyIn({"whole wheat", "whole grain", "rye"}, food_lower)
            THEN Some(51)
            ELSE Some(75)
  ELSE IF Contains("coffee", food_lower) /\ ~Contains("frapp", food_lower) THEN Some(0)
  ELSE IF Contains("tea", food_lower) /\ ~Contains("sweet", food_lower) THEN Some(0)
  ELSE IF AnyIn({"soda", "cola", "pepsi", "sprite"}, food_lower) THEN Some(70)
  ELSE IF Contains("juice", food_lower) THEN Some(50)
  ELSE IF Contains("smoothie", food_lower) THEN Some(55)
  ELSE IF Contains("shake", food_lower) THEN Some(61)
  ELSE IF Contains("ice cream", food_lower) THEN Some(61)
  ELSE IF Contains("cookie", food_lower) THEN Some(77)
  ELSE IF Contains("cake", food_lower) THEN Some(73)
  ELSE IF Contains("muffin", food_lower) THEN Some(71)
  ELSE IF Contains("bagel", food_lower) THEN Some(72)
  ELSE IF Contains("croissant", food_lower) THEN Some(67)
  ELSE IF Contains("chips", food_lower)
       THEN IF Contains("potato", food_lower) THEN Some(56)
            ELSE IF Contains("tortilla", food_lower) THEN Some(63)
            ELSE Some(60)
  ELSE IF Contains("wings", food_lower) \/ Contains("chicken tender", food_lower)
       THEN IF Contains("fried", food_lower) \/ Contains("buffalo", food_lower)
            THEN Some(70)
            ELSE Some(0)
  ELSE IF Contains("soup", food_lower)
       THEN IF Contains("lentil", food_lower) \/ Contains("bean", food_lower)
            THEN Some(30)
            ELSE Some(40)
  ELSE IF Contains("pho", food_lower) THEN Some(40)
  ELSE IF Contains("banh mi", food_lower) THEN Some(75)
  ELSE None

\* "Check for partial matches": the value of the first item, in iteration
\* order, whose key is a substring of the name; the special cases after it.
partial_match(food_lower) ==
  LET its == items
      hits == {i \in 1..Len(its) : Contains(its[i][1], food_lower)}
  IN IF hits # {}
     THEN Some(its[CHOOSE i \in hits : \A j \in hits : i <= j][2])
     ELSE special_cases(food_lower)

\* a plausible slip: the partial matches tried before the words
word_match_after_partial(food_lower) ==
  LET words == split(food_lower)
      hits == {i \in 1..Len(words) : InMap(words[i])}
      its == items
      partial == {i \in 1..Len(its) : Contains(its[i][1], food_lower)}
  IN IF partial # {}
     THEN Some(its[CHOOSE i \in partial : \A j \in partial : i <= j][2])
     ELSE IF hits # {}
     THEN Some(MapGet(words[CHOOSE i \in hits : \A j \in hits : i <= j]))
     ELSE special_cases(food_lower)

\* "Check each word in the food name": the value of the first word that is a key.
word_match(food_lower) ==
  LET words == split(food_lower)
      hits == {i \in 1..Len(words) : InMap(words[i])}
  IN IF hits # {}
     THEN Some(MapGet(words[CHOOSE i \in hits : \A j \in hits : i <= j]))
     ELSE partial_match(food_lower)

\* find_gi_for_food(food_name), food_name being None or Some(string)
find_gi_for_food(food_name) ==
  IF food_name = None \/ Len(food_name[1]) = 0 THEN None
  ELSE LET food_lower == lower(food_name[1])
       IN IF InMap(food_lower) THEN Some(MapGet(food_lower))
          ELSE word_match(food_lower)

(***************************************************************************)
(* Glycemic load                                                           *)
(***************************************************************************)
RECURSIVE Pow2Mod100(_)
Pow2Mod100(e) == IF e = 0 THEN 1 ELSE (2 * Pow2Mod100(e - 1)) % 100

\* floor(log2(k / 100)) for an integer k > 0
BinaryExponent(k) ==
  IF k >= 100
  THEN CHOOSE p \in 0..20 : 100 * 2^p <= k /\ k < 100 * 2^(p + 1)
  ELSE 0 - (CHOOSE n \in 1..7 : k * 2^n >= 100 /\ k * 2^(n - 1) < 100)

\* k / 100 in IEEE double arithmetic, k > 0 an integer: the sign of the error
\* of the quotient (the double nearest to k/100, 53 significant bits) against
\* the exact k/100.
DivisionError(k) ==
  LET rem == ((k % 100) * Pow2Mod100(52 - BinaryExponent(k))) % 100
  IN IF rem = 0 THEN 0 ELSE IF rem < 50 THEN -1 ELSE 1

RECURSIVE py_round1(_)
\* a plausible slip: the load cut off after one decimal instead of rounded
py_trunc1(k) == IF k >= 0 THEN k \div 10 ELSE 0 - ((0 - k) \div 10)

\* Python round(k / 100, 1), in tenths: the one-decimal value nearest to the
\* double k/100; an exact tie goes to the even digit.
py_round1(k) ==
  IF k < 0 THEN 0 - py_round1(0 - k)
  ELSE IF k = 0 THEN 0
  ELSE LET q == k \div 10
           r == k % 10
       IN IF r < 5 THEN q
          ELSE IF r > 5 THEN q + 1
          ELSE IF DivisionError(k) < 0 THEN q
          ELSE IF DivisionError(k) > 0 THEN q + 1
          ELSE IF q % 2 = 0 THEN q ELSE q + 1

RECURSIVE sql_round1(_)
\* SQLite ROUND(k / 100.0, 1), in tenths: half away from zero on the decimal
\* rendering of the quotient.
sql_round1(k) ==
  IF k < 0 THEN 0 - sql_round1(0 - k)
  ELSE IF k % 10 < 5 THEN k \div 10 ELSE k \div 10 + 1

\* a plausible slip: truthiness tests in place of the `is None` tests
calculate_glycemic_load_truthy(glycemic_index, carbs_per_serving) ==
  IF glycemic_index = None \/ glycemic_index = Some(0)
     \/ carbs_per_serving = None \/ carbs_per_serving = Some(0)
  THEN None
  ELSE Some(py_round1(glycemic_index[1] * carbs_per_serving[1]))

calculate_glycemic_load(glycemic_index, carbs_per_serving) ==
  IF glycemic_index = None \/ carbs_per_serving = None THEN None
  ELSE Some(py_round1(glycemic_index[1] * carbs_per_serving[1]))

(***************************************************************************)
(* The foods table                                                         *)
(*                                                                         *)
(* Of the nutrient columns the model keeps calories, sodium_mg and         *)
(* total_carbohydrate_g; the other nutrient columns are written and read   *)
(* by the same statements in the same way.                                 *)
(***************************************************************************)
\* The columns a caller of _insert_food can pass.
KwargColumns ==
  {"name", "brand_name", "restaurant_name", "data_source", "calories", "sodium_mg",
   "total_carbohydrate_g", "glycemic_index", "glycemic_load"}

\* Keyword arguments of _insert_food; a column that is not passed is None.
Kwargs(name, brand_name, restaurant_name, data_source, calories, sodium_mg, total_carbohydrate_g, glycemic_index, glycemic_load) ==
  [name |-> name, brand_name |-> brand_name, restaurant_name |-> restaurant_name,
   data_source |-> data_source, calories |-> calories, sodium_mg |-> sodium_mg,
   total_carbohydrate_g |-> total_carbohydrate_g, glycemic_index |-> glycemic_index,
   glycemic_load |-> glycemic_load]

\* The candidate records the importers hand to _insert_food.
Candidates ==
  { Kwargs(Some("Taco"), None, None, Some("Manual"),
           Some(170), Some(300), Some(45), None, None),
    Kwargs(Some("Taco"), None, None, Some("Manual"),
           Some(175), None, None, None, None),
    Kwargs(Some("Taco"), None, None, Some("USDA FoodData Central"),
           Some(180), None, Some(-5), None, None),
    Kwargs(Some("Barbacoa"), None, Some("Chipotle"), Some("Restaurant Menu Data"),
           Some(170), Some(530), Some(2), Some(0), None),
    Kwargs(Some("Tacos (beef, hard shell)"), None, None, Some("Manual"),
           Some(200), None, Some(0), None, None),
    Kwargs(Some("Chicken Salad"), Some("Acme"), None, Some("OpenFoodFacts"),
           Some(120), Some(250), Some(7), None, None) }

\* COMMON_FOODS_DATA, the list load_common_foods_data walks through: an
\* entry that carries a name and a source and nothing else, an entry whose
\* name is the empty string, an entry without a name, and a complete entry.
COMMON_FOODS_DATA ==
  << Kwargs(Some("Dates"), None, None, Some("Manual"), None, None, None, None, None),
     Kwargs(Some(""), None, None, Some("Manual"), Some(100), None, None, None, None),
     Kwargs(None, None, None, Some("Manual"), Some(100), None, None, None, None),
     Kwargs(Some("Taco"), None, None, Some("Manual"),
            Some(170), Some(300), Some(45), None, None) >>

\* The response of the USDA food endpoint as far as _fetch_food_details
\* reads it; a key the response lacks is None.
FoodData(description, brandName, calories, total_carbohydrate_g) ==
  [description |-> description, brandName |-> brandName, calories |-> calories,
   total_carbohydrate_g |-> total_carbohydrate_g]

\* The responses the USDA food endpoint gives.
UsdaFoods ==
  { FoodData(None, None, Some(90), Some(10)),
    FoodData(Some("Dates"), None, Some(280), Some(75)) }

\* The keyword arguments _fetch_food_details passes to _insert_food:
\* food_data.get("description", "Unknown") is the name, and a nutrient the
\* response has no amount for is not passed.
usda_kwargs(food_data) ==
  Kwargs(IF food_data.description = None THEN Some("Unknown") ELSE food_data.description,
         food_data.brandName, None, Some("USDA FoodData Central"),
         food_data.calories, None, food_data.total_carbohydrate_g, None, None)

\* A product of the OpenFoodFacts API as far as _import_product reads it; a
\* key the product lacks is None.
Product(product_name, brands, energy_kcal_100g, proteins_100g, carbohydrates_100g) ==
  [product_name |-> product_name, brands |-> brands,
   energy_kcal_100g |-> energy_kcal_100g, proteins_100g |-> proteins_100g,
   carbohydrates_100g |-> carbohydrates_100g]

\* The products a barcode lookup answers with, in the order of the barcodes:
\* a product without a name, one whose name is blank, one with neither
\* calories nor protein, and a complete one.
OpenFoodFactsProducts ==
  << Product(None, None, Some(50), None, None),
     Product(Some("  "), Some("Acme"), Some(50), None, None),
     Product(Some("Oat Bar"), None, None, None, Some(20)),
     Product(Some(" Chicken Salad "), Some("Acme"), Some(120), None, Some(7)) >>

\* food_data of _import_product once the None values are removed, as the
\* keyword arguments of OpenFoodFactsImporter._insert_food.
product_kwargs(product) ==
  LET name == IF product.product_name = None THEN "" ELSE strip(product.product_name[1])
      brands == IF product.brands = None THEN "" ELSE strip(product.brands[1])
  IN Kwargs(Some(name), IF brands = "" THEN None ELSE Some(brands), None,
            Some("OpenFoodFacts"), product.energy_kcal_100g, None,
            product.carbohydrates_100g, None, None)

\* product_kwargs, tabulated over the products
product_kwargs_of ==
  [i \in 1..Len(OpenFoodFactsProducts) |-> product_kwargs(OpenFoodFactsProducts[i])]

\* Every record of keyword arguments an insert is called with.
AllCandidates ==
  Candidates \cup {COMMON_FOODS_DATA[i] : i \in 1..Len(COMMON_FOODS_DATA)}
    \cup {usda_kwargs(food_data) : food_data \in UsdaFoods}
    \cup {product_kwargs_of[i] : i \in 1..Len(OpenFoodFactsProducts)}

\* One entry of CHIPOTLE_DATA; a key the entry lacks is None.
ChipotleItem(item_name, calories, sodium_mg, carbohydrates_g, tags) ==
  [item_name |-> item_name, calories |-> calories, sodium_mg |-> sodium_mg,
   carbohydrates_g |-> carbohydrates_g, tags |-> tags]

\* CHIPOTLE_DATA, the list the import walks through: two versions of one
\* item, an entry that lacks keys, and an item of another name.
CHIPOTLE_DATA ==
  << ChipotleItem("Barbacoa", Some(170), Some(530), Some(2), Some(<<"Chipotle">>)),
     ChipotleItem("Barbacoa", Some(175), Some(530), Some(2), Some(<<"Chipotle">>)),
     ChipotleItem("Barbacoa", Some(175), None, None, None),
     ChipotleItem("Carnitas", Some(210), Some(450), Some(0), Some(<<"Chipotle">>)) >>

ChipotleItems == {CHIPOTLE_DATA[i] : i \in 1..Len(CHIPOTLE_DATA)}

MaxBatch == 2       \* entries of one Chipotle import

\* The entries of CHIPOTLE_DATA at the positions in S, in the order of the list.
SubList(S) ==
  [k \in 1..Cardinality(S) |->
     CHIPOTLE_DATA[CHOOSE i \in S : Cardinality({j \in S : j < i}) = k - 1]]

\* The contents CHIPOTLE_DATA can have in one run of the import: up to
\* MaxBatch of the entries, in the order of the list.
ChipotleBatches ==
  {SubList(S) : S \in {P \in SUBSET (1..Len(CHIPOTLE_DATA)) : Cardinality(P) \in 1..MaxBatch}}

SeqToSet(s) == {s[i] : i \in 1..Len(s)}

\* The identity tuple of a stored row.
Identity(row) == <<row.name, row.brand_name, row.restaurant_name, row.data_source>>

\* search_terms as _insert_food builds it: ' '.join(set(search_terms)).  The
\* order of the joined words is that of a set of strings; the model keeps
\* the separator and how often each word occurs in the text, which is once.
insert_search_terms(kwargs) ==
  LET words(v) == IF v = None \/ Len(v[1]) = 0 THEN {} ELSE SeqToSet(split(lower(v[1])))
  IN [sep |-> " ",
      terms |-> [w \in words(kwargs.name) \cup words(kwargs.brand_name)
                         \cup words(kwargs.restaurant_name) |-> 1]]

\* insert_search_terms, tabulated over the candidates
search_terms_of == [kwargs \in AllCandidates |-> insert_search_terms(kwargs)]

\* a plausible slip: a nutrient column the caller does not pass is stored as
\* 0 (a DEFAULT 0 on the column, as in the schema of create_minimal_db.py)
insert_row_default_zero(kwargs) ==
  LET coalesce(v) == IF v = None THEN Some(0) ELSE v
  IN [name |-> kwargs.name[1],
      brand_name |-> kwargs.brand_name,
      restaurant_name |-> kwargs.restaurant_name,
      data_source |-> kwargs.data_source,
      calories |-> coalesce(kwargs.calories),
      sodium_mg |-> coalesce(kwargs.sodium_mg),
      total_carbohydrate_g |-> coalesce(kwargs.total_carbohydrate_g),
      glycemic_index |-> kwargs.glycemic_index,
      glycemic_load |-> kwargs.glycemic_load,
      search_terms |-> Some(search_terms_of[kwargs]),
      popularity_score |-> 0,
      updated_at |-> clock]

\* The row INSERT OR REPLACE stores for the columns that are not None; the
\* other columns take their defaults.
insert_row(kwargs) ==
  [name |-> kwargs.name[1],
   brand_name |-> kwargs.brand_name,
   restaurant_name |-> kwargs.restaurant_name,
   data_source |-> kwargs.data_source,
   calories |-> kwargs.calories,
   sodium_mg |-> kwargs.sodium_mg,
   total_carbohydrate_g |-> kwargs.total_carbohydrate_g,
   glycemic_index |-> kwargs.glycemic_index,
   glycemic_load |-> kwargs.glycemic_load,
   search_terms |-> Some(search_terms_of[kwargs]),
   popularity_score |-> 0,
   updated_at |-> clock]

\* INSERT OR REPLACE INTO foods: the table's only key is the AUTOINCREMENT id,
\* which the statement never supplies, so no stored row conflicts and the row
\* is appended under a fresh id.  A NULL name violates NOT NULL; the column has
\* no default, the statement fails and the except clause logs the error.
insert_or_replace(table, kwargs) ==
  IF kwargs.name = None THEN table
  ELSE Append(table, insert_row(kwargs))

\* NutrientsDatabaseBuilder._insert_food(**kwargs)
InsertFood(kwargs) ==
  /\ Len(foods) < MaxRows
  /\ foods' = insert_or_replace(foods, kwargs)
  /\ last' = "_insert_food"
  /\ UNCHANGED <<clock, txn, glycemic_index_ref, conns, giVars, glVars, tester>>

\* search_terms as add_chipotle_to_database builds it, an f-string of
\* "chipotle", the lowercase name and the lowercase tags joined by commas:
\* a word that occurs twice in that list occurs twice in the text.
chipotle_search_terms(item) ==
  LET listed == <<"chipotle", lower(item.item_name)>>
                  \o [i \in 1..Len(item.tags[1]) |-> lower(item.tags[1][i])]
  IN [sep |-> ",",
      terms |-> [w \in SeqToSet(listed) |->
                   Cardinality({i \in 1..Len(listed) : listed[i] = w})]]

\* chipotle_search_terms, tabulated over the entries with tags
chipotle_terms_of ==
  [item \in {it \in ChipotleItems : it.tags # None} |-> chipotle_search_terms(item)]

\* The body of the loop over CHIPOTLE_DATA for one entry: a missing key
\* raises KeyError, the except clause reports it and the loop continues.
chipotle_entry(table, item, current_timestamp) ==
  IF item.calories = None \/ item.sodium_mg = None \/ item.carbohydrates_g = None
     \/ item.tags = None
  THEN table
  ELSE LET hit(row) == row.name = item.item_name /\ row.restaurant_name = Some("Chipotle")
       IN IF \E i \in 1..Len(table) : hit(table[i])
          THEN [i \in 1..Len(table) |->
                  IF hit(table[i])
                  THEN [table[i] EXCEPT !.calories = item.calories,
                                         !.sodium_mg = item.sodium_mg,
                                         !.total_carbohydrate_g = item.carbohydrates_g,
                                         !.search_terms = Some(chipotle_terms_of[item]),
                                         !.updated_at = current_timestamp]
                  ELSE table[i]]
          ELSE Append(table,
                 [name |-> item.item_name,
                  brand_name |-> None,
                  restaurant_name |-> Some("Chipotle"),
                  data_source |-> Some("Restaurant"),
                  calories |-> item.calories,
                  sodium_mg |-> item.sodium_mg,
                  total_carbohydrate_g |-> item.carbohydrates_g,
                  glycemic_index |-> None,
                  glycemic_load |-> None,
                  search_terms |-> Some(chipotle_terms_of[item]),
                  popularity_score |-> 0,
                  updated_at |-> current_timestamp])

\* a plausible slip: the loop over CHIPOTLE_DATA ends after its first entry
chipotle_loop_first_entry(table, data, current_timestamp) ==
  IF data = <<>> THEN table
  ELSE chipotle_entry(table, Head(data), current_timestamp)

RECURSIVE chipotle_loop(_, _, _)
chipotle_loop(table, data, current_timestamp) ==
  IF data = <<>> THEN table
  ELSE chipotle_loop(chipotle_entry(table, Head(data), current_timestamp),
                     Tail(data), current_timestamp)

\* add_chipotle_to_database(db_path), CHIPOTLE_DATA being data
AddChipotleToDatabase(data) ==
  /\ LET table == chipotle_loop(foods, data, clock)
     IN /\ Len(table) <= MaxRows
        /\ foods' = table
  /\ last' = "add_chipotle_to_database"
  /\ UNCHANGED <<clock, txn, glycemic_index_ref, conns, giVars, glVars, tester>>

\* The names a stored row can have.
StoredNames ==
  {kwargs.name[1] : kwargs \in {c \in AllCandidates : c.name # None}}
    \cup {item.item_name : item \in ChipotleItems}

common_foods ==
  {"pizza", "burger", "fries", "chicken", "salad", "sandwich", "pasta", "rice", "bread",
   "milk", "cheese", "eggs", "apple", "banana", "coffee", "water", "soda", "juice"}

\* DELETE FROM foods WHERE id NOT IN (SELECT MIN(id) ... GROUP BY name,
\* brand_name, restaurant_name): of the rows that agree on the three columns
\* (GROUP BY puts NULLs in one group) the one of least id stays.
remove_duplicates(table) ==
  LET key(row) == <<row.name, row.brand_name, row.restaurant_name>>
      kept == {i \in 1..Len(table) :
                 \A j \in 1..Len(table) : key(table[j]) = key(table[i]) => i <= j}
      RECURSIVE keep(_)
      keep(i) == IF i > Len(table) THEN <<>>
                 ELSE (IF i \in kept THEN <<table[i]>> ELSE <<>>) \o keep(i + 1)
  IN keep(1)

\* For each name, how many of the common foods match LOWER(name) LIKE '%food%'.
common_food_hits ==
  [name \in StoredNames |->
     Cardinality({food \in common_foods : Contains(food, lower(name))})]

\* UPDATE foods SET popularity_score = popularity_score + 10 WHERE LOWER(name)
\* LIKE '%food%', once for each of the common foods
update_popularity(table) ==
  [i \in 1..Len(table) |->
     [table[i] EXCEPT !.popularity_score = @ + 10 * common_food_hits[table[i].name]]]

\* NutrientsDatabaseBuilder.optimize_database()
OptimizeDatabase ==
  /\ LET table == update_popularity(remove_duplicates(foods))
     IN /\ \A i \in 1..Len(table) : table[i].popularity_score <= MaxPopularity
        /\ foods' = table
  /\ last' = "optimize_database"
  /\ txn' = None
  /\ UNCHANGED <<clock, glycemic_index_ref, conns, giVars, glVars, tester>>

\* The calls find_gi_for_food(name) the backfill makes, tabulated.
gi_for_name == [name \in StoredNames |-> find_gi_for_food(Some(name))]

\* a plausible slip: a name without an estimate gets the index 0
backfill_row_default_zero(row) ==
  IF row.glycemic_index = None \/ row.glycemic_index = Some(0)
  THEN LET gi_value == gi_for_name[row.name]
       IN IF gi_value # None
          THEN [row EXCEPT !.glycemic_index = gi_value,
                           !.glycemic_load =
                             IF row.total_carbohydrate_g # None
                                /\ row.total_carbohydrate_g # Some(0)
                             THEN calculate_glycemic_load(gi_value, row.total_carbohydrate_g)
                             ELSE None]
          ELSE [row EXCEPT !.glycemic_index = Some(0), !.glycemic_load = None]
  ELSE row

\* The loop of update_database_gi over the rows selected by "glycemic_index
\* IS NULL OR glycemic_index = 0", for one row.
backfill_row(row) ==
  IF row.glycemic_index = None \/ row.glycemic_index = Some(0)
  THEN LET gi_value == gi_for_name[row.name]
       IN IF gi_value # None
          THEN [row EXCEPT !.glycemic_index = gi_value,
                           !.glycemic_load =
                             IF row.total_carbohydrate_g # None
                                /\ row.total_carbohydrate_g # Some(0)
                             THEN calculate_glycemic_load(gi_value, row.total_carbohydrate_g)
                             ELSE None]
          ELSE row
  ELSE row

\* a plausible slip: the closing UPDATE left out
fill_missing_load_skipped(row) == row

\* "Also update foods that have GI but no GL": the closing UPDATE of
\* update_database_gi, for one row.
fill_missing_load(row) ==
  IF row.glycemic_index # None /\ row.glycemic_load = None /\ row.total_carbohydrate_g # None
  THEN [row EXCEPT !.glycemic_load =
          Some(sql_round1(row.glycemic_index[1] * row.total_carbohydrate_g[1]))]
  ELSE row

\* a plausible slip: the UPDATE that fills the missing loads run before the
\* loop over the rows
UpdateDatabaseGI_fill_first ==
  /\ foods' = [i \in 1..Len(foods) |-> backfill_row(fill_missing_load(foods[i]))]
  /\ last' = "update_database_gi"
  /\ UNCHANGED <<clock, txn, glycemic_index_ref, conns, giVars, glVars, tester>>

\* update_database_gi()
UpdateDatabaseGI ==
  /\ foods' = [i \in 1..Len(foods) |-> fill_missing_load(backfill_row(foods[i]))]
  /\ last' = "update_database_gi"
  /\ UNCHANGED <<clock, txn, glycemic_index_ref, conns, giVars, glVars, tester>>

\* fix_taco_gi()
FixTacoGI ==
  /\ foods' = [i \in 1..Len(foods) |->
                 IF foods[i].name = "Tacos (beef, hard shell)"
                 THEN [foods[i] EXCEPT !.glycemic_index = Some(52),
                                       !.glycemic_load =
                                         IF foods[i].total_carbohydrate_g = None THEN None
                                         ELSE Some(sql_round1(52 * foods[i].total_carbohydrate_g[1]))]
                 ELSE foods[i]]
  /\ last' = "fix_taco_gi"
  /\ UNCHANGED <<clock, txn, glycemic_index_ref, conns, giVars, glVars, tester>>

\* Time passes between two operations.
Tick ==
  /\ clock < MaxClock
  /\ clock' = clock + 1
  /\ UNCHANGED <<foods, last, txn, glycemic_index_ref, conns, giVars, glVars, tester>>

Init ==
  /\ foods = <<>>
  /\ clock = 0
  /\ last = "connect"
  /\ txn = None
  /\ glycemic_index_ref = {}
  /\ conns = {}
  /\ tester = idle_tester(FALSE)
  /\ run = 1
  /\ giName = None
  /\ giResults = <<>>
  /\ glIndex = None
  /\ glCarbs = None
  /\ glResults = <<>>

Next ==
  \/ \E kwargs \in Candidates : InsertFood(kwargs)
  \/ \E data \in ChipotleBatches : AddChipotleToDatabase(data)
  \/ OptimizeDatabase
  \/ UpdateDatabaseGI
  \/ FixTacoGI
  \/ Tick

Spec == Init /\ [][Next]_vars

(***************************************************************************)
(* The build script with its transaction, and the OpenFoodFacts importer   *)
(***************************************************************************)
\* The entries of list at the positions in S, in the order of the list.
SubListOf(list, S) ==
  [k \in 1..Cardinality(S) |->
     list[CHOOSE i \in S : Cardinality({j \in S : j < i}) = k - 1]]

\* The contents a data file can have in one run: up to MaxBatch of the
\* entries of list, in the order of the list.
Batches(list) ==
  {SubListOf(list, S) : S \in {P \in SUBSET (1..Len(list)) : Cardinality(P) \in 1..MaxBatch}}

\* The sqlite3 module opens a transaction before the first INSERT, UPDATE or
\* DELETE that follows a commit.
begin == IF txn = None THEN Some(foods) ELSE txn

RECURSIVE insert_all(_, _)
\* for item in data: self._insert_food(**item)
insert_all(table, data) ==
  IF data = <<>> THEN table
  ELSE insert_all(insert_or_replace(table, Head(data)), Tail(data))

\* NutrientsDatabaseBuilder._fetch_food_details(fdc_id), the endpoint
\* answering with food_data
FetchFoodDetails(food_data) ==
  /\ Len(foods) < MaxRows
  /\ foods' = insert_or_replace(foods, usda_kwargs(food_data))
  /\ txn' = begin
  /\ last' = "_fetch_food_details"
  /\ UNCHANGED <<clock, glycemic_index_ref, conns, giVars, glVars, tester>>

\* The request of the next page raises in fetch_usda_foods, after a food of
\* the page before was fetched and written: the except clause logs the error
\* and leaves the loop over the pages of this data type.
FetchUsdaFoodsError ==
  /\ last = "_fetch_food_details"
  /\ last' = "fetch_usda_foods_error"
  /\ UNCHANGED <<foods, clock, txn, glycemic_index_ref, conns, giVars, glVars, tester>>

CommonFoodsInputs == Batches(COMMON_FOODS_DATA)

\* NutrientsDatabaseBuilder.load_common_foods_data(), COMMON_FOODS_DATA being
\* data
LoadCommonFoodsData(data) ==
  /\ LET table == insert_all(foods, data)
     IN /\ Len(table) <= MaxRows
        /\ foods' = table
  /\ txn' = None
  /\ last' = "load_common_foods_data"
  /\ UNCHANGED <<clock, glycemic_index_ref, conns, giVars, glVars, tester>>

\* GLYCEMIC_INDEX_DATA, the list load_glycemic_index_data walks through
GLYCEMIC_INDEX_DATA ==
  << [name |-> "taco", glycemic_index |-> 52, serving_size_g |-> 100] >>

GlycemicIndexInputs == Batches(GLYCEMIC_INDEX_DATA)

\* The row INSERT INTO glycemic_index_ref stores for item.  The load is
\* computed from an estimate of 20 g of carbohydrate in 100 g; for a serving
\* of a multiple of 50 g the carbohydrate in the serving is a whole number.
ref_row(item) ==
  LET estimated_carbs_per_100g == 20
      carbs_in_serving == (item.serving_size_g * estimated_carbs_per_100g) \div 100
  IN [food_name |-> item.name,
      glycemic_index |-> item.glycemic_index,
      glycemic_load |-> py_round1(item.glycemic_index * carbs_in_serving)]

\* ref_row, tabulated over the entries
ref_row_of == [i \in 1..Len(GLYCEMIC_INDEX_DATA) |-> ref_row(GLYCEMIC_INDEX_DATA[i])]

\* For each name, the food_name values of glycemic_index_ref that satisfy
\* LOWER(foods.name) LIKE '%' || LOWER(gi.food_name) || '%'.
ref_matches ==
  [name \in StoredNames |->
     {ref_row_of[i].food_name : i \in {j \in 1..Len(GLYCEMIC_INDEX_DATA) :
        Contains(lower(ref_row_of[j].food_name), lower(name))}}]

\* UPDATE foods SET ... FROM glycemic_index_ref gi WHERE ...: what the row
\* can become.  Of several rows of glycemic_index_ref that match, SQLite uses
\* an arbitrary one.
ref_update(row, ref) ==
  LET hits == {gi \in ref : gi.food_name \in ref_matches[row.name]}
  IN IF hits = {} THEN {row}
     ELSE {[row EXCEPT !.glycemic_index = Some(gi.glycemic_index),
                       !.glycemic_load = Some(gi.glycemic_load)] : gi \in hits}

\* NutrientsDatabaseBuilder.load_glycemic_index_data(), GLYCEMIC_INDEX_DATA
\* being data
LoadGlycemicIndexData(data) ==
  /\ glycemic_index_ref' =
       glycemic_index_ref \cup {ref_row(data[i]) : i \in 1..Len(data)}
  /\ foods' \in {table \in [1..Len(foods) ->
                              UNION {ref_update(foods[i], glycemic_index_ref') :
                                       i \in 1..Len(foods)}] :
                   \A i \in 1..Len(foods) :
                     table[i] \in ref_update(foods[i], glycemic_index_ref')}
  /\ txn' = begin
  /\ last' = "load_glycemic_index_data"
  /\ UNCHANGED <<clock, conns, giVars, glVars, tester>>

\* NutrientsDatabaseBuilder.__exit__: the connection is closed, and what the
\* open transaction wrote is gone.
Close ==
  /\ foods' = IF txn = None THEN foods ELSE txn[1]
  /\ txn' = None
  /\ last' = "close"
  /\ UNCHANGED <<clock, glycemic_index_ref, conns, giVars, glVars, tester>>

\* search_terms as OpenFoodFactsImporter._insert_food builds it, from the
\* name and the brand.
off_search_terms(kwargs) ==
  LET words(v) == IF v = None \/ Len(v[1]) = 0 THEN {} ELSE SeqToSet(split(lower(v[1])))
  IN [sep |-> " ",
      terms |-> [w \in words(kwargs.name) \cup words(kwargs.brand_name) |-> 1]]

\* off_search_terms, tabulated over the products
off_terms_of ==
  [i \in 1..Len(OpenFoodFactsProducts) |-> off_search_terms(product_kwargs_of[i])]

\* OpenFoodFactsImporter._import_product(product) for the product at position
\* i: a product without a name is turned down, and so is one that has neither
\* calories nor protein.
import_product(table, i) ==
  LET product == OpenFoodFactsProducts[i]
      kwargs == product_kwargs_of[i]
  IN IF kwargs.name = Some("") THEN table
     ELSE IF product.energy_kcal_100g = None /\ product.proteins_100g = None THEN table
     ELSE Append(table, [insert_row(kwargs) EXCEPT !.search_terms = Some(off_terms_of[i])])

\* How the lookup of a barcode can end: status 200 with the product, another
\* HTTP status, and a timeout, which session.get raises.
Responses == {"200", "404", "timeout"}

\* a plausible slip: the status of the response is not looked at, and the
\* body of an error response is read as a product
fetch_ok_any_status(response) == response # "timeout"

\* The lookup gives a product to _import_product: no exception was raised
\* and response.status_code == 200.
fetch_ok(response) == response = "200"

RECURSIVE import_all(_, _, _)
import_all(table, positions, responses) ==
  IF positions = <<>> THEN table
  ELSE import_all(IF fetch_ok(Head(responses))
                  THEN import_product(table, Head(positions)) ELSE table,
                  Tail(positions), Tail(responses))

BarcodeInputs == Batches([i \in 1..Len(OpenFoodFactsProducts) |-> i])

\* OpenFoodFactsImporter.import_by_barcode(barcodes), the lookups ending as
\* responses says and the successful ones answering with the products at
\* the given positions.  The importer has a connection of its own and writes
\* when no other transaction is open.
ImportByBarcode(positions, responses) ==
  /\ txn = None
  /\ LET table == import_all(foods, positions, responses)
     IN /\ Len(table) <= MaxRows
        /\ foods' = table
  /\ last' = IF \A k \in 1..Len(responses) : fetch_ok(responses[k])
             THEN "import_by_barcode" ELSE "import_by_barcode, lookups failed"
  /\ UNCHANGED <<clock, txn, glycemic_index_ref, conns, giVars, glVars, tester>>

\* _fetch_food_details(fdc_id) when the request fails: raise_for_status or
\* session.get raises, the except clause logs the error.
FetchFoodDetailsError ==
  /\ last' = "_fetch_food_details, request failed"
  /\ UNCHANGED <<foods, clock, txn, glycemic_index_ref, conns, giVars, glVars, tester>>

NextImport ==
  \/ \E food_data \in UsdaFoods : FetchFoodDetails(food_data)
  \/ FetchUsdaFoodsError
  \/ \E data \in CommonFoodsInputs : LoadCommonFoodsData(data)
  \/ \E data \in GlycemicIndexInputs : LoadGlycemicIndexData(data)
  \/ OptimizeDatabase
  \/ Close
  \/ \E positions \in BarcodeInputs :
       ImportByBarcode(positions, [k \in 1..Len(positions) |-> "200"])
  \/ Tick

SpecImport == Init /\ [][NextImport]_vars

\* The importers with requests that can fail: the barcode lookups of the
\* OpenFoodFacts importer and the food requests of the USDA fetch.
NextFetch ==
  \/ \E positions \in BarcodeInputs :
       \E responses \in [1..Len(positions) -> Responses] :
         ImportByBarcode(positions, responses)
  \/ \E food_data \in UsdaFoods : FetchFoodDetails(food_data)
  \/ FetchFoodDetailsError
  \/ FetchUsdaFoodsError
  \/ Close
  \/ Tick

SpecFetch == Init /\ [][NextFetch]_vars

(***************************************************************************)
(* The backfill pass and the taco fix run on a table as they find it       *)
(***************************************************************************)
\* A row of foods as the passes read it: the name, the carbohydrate amount,
\* the glycemic index and the glycemic load; the other columns are NULL.
BackfillRow(name, total_carbohydrate_g, glycemic_index, glycemic_load) ==
  [name |-> name,
   brand_name |-> None,
   restaurant_name |-> None,
   data_source |-> Some("Manual"),
   calories |-> None,
   sodium_mg |-> None,
   total_carbohydrate_g |-> total_carbohydrate_g,
   glycemic_index |-> glycemic_index,
   glycemic_load |-> glycemic_load,
   search_terms |-> None,
   popularity_score |-> 0,
   updated_at |-> 0]

\* The rows the passes can find: names the estimator gives 52, 0, nothing
\* and 103 for; no carbohydrate amount, zero, a positive and a negative one;
\* no index, a stored 0 and a stored 52; no load, a load of 0.0 and of 23.4.
BackfillNames == {"Taco", "Tacos (beef, hard shell)", "Barbacoa", "Dates"}
BackfillRows ==
  {BackfillRow(name, carbs, gi, gl) :
     name \in BackfillNames,
     carbs \in {None, Some(0), Some(45), Some(-5)},
     gi \in {None, Some(0), Some(52)},
     gl \in {None, Some(0), Some(234)}}

\* The tables the passes can find: one row, or two rows of which the first
\* is a taco row without index and load.
BackfillTables ==
  {<<row>> : row \in BackfillRows}
    \cup {<<BackfillRow("Taco", Some(45), None, None), row>> :
            row \in {r \in BackfillRows : r.name = "Barbacoa"}}

InitBackfill ==
  /\ foods \in BackfillTables
  /\ clock = 0
  /\ last = "connect"
  /\ txn = None
  /\ glycemic_index_ref = {}
  /\ conns = {}
  /\ tester = idle_tester(FALSE)
  /\ run = 1
  /\ giName = None
  /\ giResults = <<>>
  /\ glIndex = None
  /\ glCarbs = None
  /\ glResults = <<>>

NextBackfill == UpdateDatabaseGI \/ FixTacoGI

SpecBackfill == InitBackfill /\ [][NextBackfill]_vars

(***************************************************************************)
(* The connections the scripts open to the store                           *)
(*                                                                         *)
(* Each script opens its connection with sqlite3.connect and closes it     *)
(* with conn.close().  conns holds the operations that have ended while    *)
(* their connection was still open.  A connection nobody closed stays open *)
(* until the interpreter finalizes the connection object, at a time the    *)
(* code does not decide.                                                   *)
(***************************************************************************)
\* The database files add_chipotle_to_database can be given: main() takes the
\* first nutrients.db that exists among its five locations.
DbPaths == {"app/src/main/assets/nutrients.db", "scripts/nutrients.db"}

\* cursor.fetchone() of SELECT sql FROM sqlite_master WHERE type='table' AND
\* name='foods': the foods table of the model is in the app's database, the
\* other file has no tables (sqlite3.connect creates such a file).
table_info(db_path) ==
  IF db_path = "app/src/main/assets/nutrients.db" THEN Some("CREATE TABLE foods") ELSE None

\* add_chipotle_to_database(db_path): without the foods table it returns False
\* straight after the lookup, and conn.close() is not on that path.
AddChipotleToDatabaseAt(db_path, data) ==
  IF table_info(db_path) = None
  THEN /\ conns' = conns \cup {"add_chipotle_to_database"}
       /\ last' = "add_chipotle_to_database, foods table not found"
       /\ UNCHANGED <<foods, clock, txn, glycemic_index_ref, giVars, glVars, tester>>
  ELSE AddChipotleToDatabase(data)

\* update_database_gi() when a statement raises (sqlite3.OperationalError at
\* the first SELECT): nothing catches it and conn.close(), the last statement
\* of the function, is not reached.
UpdateDatabaseGIRaises ==
  /\ conns' = conns \cup {"update_database_gi"}
  /\ last' = "update_database_gi, raised"
  /\ UNCHANGED <<foods, clock, txn, glycemic_index_ref, giVars, glVars, tester>>

\* fix_taco_gi() when a statement in its try block raises: except rolls
\* back, finally closes the connection.
FixTacoGIRaises ==
  /\ last' = "fix_taco_gi, rolled back"
  /\ UNCHANGED <<foods, clock, txn, glycemic_index_ref, conns, giVars, glVars, tester>>

\* The interpreter finalizes a connection object that was left open.
Finalize(operation) ==
  /\ operation \in conns
  /\ conns' = conns \ {operation}
  /\ UNCHANGED <<foods, clock, last, txn, glycemic_index_ref, giVars, glVars, tester>>

NextConnections ==
  \/ \E db_path \in DbPaths : \E data \in ChipotleBatches :
       AddChipotleToDatabaseAt(db_path, data)
  \/ UpdateDatabaseGI
  \/ UpdateDatabaseGIRaises
  \/ FixTacoGI
  \/ FixTacoGIRaises
  \/ \E operation \in {"add_chipotle_to_database", "update_database_gi"} :
       Finalize(operation)
  \/ Tick

SpecConnections == Init /\ [][NextConnections]_vars

(***************************************************************************)
(* The test runner: GemMunchTester.test_single_image and its override in   *)
(* EnhancedGemMunchTester, statement by statement                          *)
(*                                                                         *)
(* tester.pc is the statement test_single_image is at, tester.device the   *)
(* pictures in /sdcard/Pictures, tester.recording whether the scrcpy       *)
(* process of current_recording_process runs, tester.results the number of *)
(* results run_all_tests has collected.                                    *)
(***************************************************************************)
MaxTests == 2        \* tests run_all_tests runs

\* get_test_images(), by file name
TestImages == {"pizza.jpg", "salad.jpg"}

\* self.current_recording_process = self._start_recording(test_name): a
\* process, or None when record_video is off or scrcpy is not installed
StartRecording(image_path, started) ==
  /\ tester.pc = "idle"
  /\ tester.results < MaxTests
  /\ tester' = [tester EXCEPT !.pc = "try", !.image_path = Some(image_path),
                              !.recording = started]
  /\ UNCHANGED <<storeVars, giVars, glVars>>

\* EnhancedGemMunchTester only: "Ensure we're in GemMunch app"; when
\* return_to_gemmunch() fails the test returns before anything is pushed.
\* GemMunchTester goes straight to copy_image_to_device.
EnsureGemMunchActive(in_app) ==
  /\ tester.pc = "try"
  /\ tester.use_ui_automator \/ in_app
  /\ tester' = [tester EXCEPT !.pc = IF in_app THEN "copy_image_to_device" ELSE "finally"]
  /\ UNCHANGED <<storeVars, giVars, glVars>>

\* device_path = self.copy_image_to_device(image_path): adb push, which
\* raises when the return code is not 0
CopyImageToDevice(returncode) ==
  /\ tester.pc = "copy_image_to_device"
  /\ tester' = IF returncode = 0
               THEN [tester EXCEPT !.pc = "open_gallery_and_select_image",
                                   !.device = @ \cup {tester.image_path[1]}]
               ELSE [tester EXCEPT !.pc = "except"]
  /\ UNCHANGED <<storeVars, giVars, glVars>>

\* if not self.open_gallery_and_select_image(image_path.name): ... return
\* test_result.  The return inside try goes to the finally block.
OpenGalleryAndSelectImage(outcome) ==
  /\ tester.pc = "open_gallery_and_select_image"
  /\ tester' = [tester EXCEPT !.pc = CASE outcome = "True" -> "wait_for_analysis_completion"
                                       [] outcome = "False" -> "finally"
                                       [] outcome = "raise" -> "except"]
  /\ UNCHANGED <<storeVars, giVars, glVars>>

\* analysis_result = self.wait_for_analysis_completion(): a timeout is a
\* result with success False, not an exception; the statements up to the
\* cleanup (_validate_test_results, take_screenshot) can raise
WaitForAnalysisCompletion(outcome) ==
  /\ tester.pc = "wait_for_analysis_completion"
  /\ tester' = [tester EXCEPT !.pc = IF outcome = "raise" THEN "except"
                                     ELSE "cleanup_device_image"]
  /\ UNCHANGED <<storeVars, giVars, glVars>>

\* cleanup_device_image(device_path): adb shell rm device_path
cleanup_device_image(device, device_path) == device \ {device_path}

\* self.cleanup_device_image(device_path), the last statement of the try
\* block that matters here
CleanupDeviceImage ==
  /\ tester.pc = "cleanup_device_image"
  /\ tester' = [tester EXCEPT !.pc = "finally",
                              !.device = cleanup_device_image(@, tester.image_path[1])]
  /\ UNCHANGED <<storeVars, giVars, glVars>>

\* except Exception as e: test_result["error"] = str(e)
ExceptBlock ==
  /\ tester.pc = "except"
  /\ tester' = [tester EXCEPT !.pc = "finally"]
  /\ UNCHANGED <<storeVars, giVars, glVars>>

\* _stop_recording(): terminate (or kill) the process, if there is one
stop_recording(recording) == FALSE

\* finally: self._stop_recording(), back to the home screen, relaunch
FinallyBlock ==
  /\ tester.pc = "finally"
  /\ tester' = [tester EXCEPT !.pc = "return",
                              !.recording = stop_recording(@)]
  /\ UNCHANGED <<storeVars, giVars, glVars>>

\* return test_result; run_all_tests appends it to self.results
ReturnTestResult ==
  /\ tester.pc = "return"
  /\ tester' = [tester EXCEPT !.pc = "idle", !.image_path = None, !.results = @ + 1]
  /\ UNCHANGED <<storeVars, giVars, glVars>>

InitTester ==
  /\ foods = <<>>
  /\ clock = 0
  /\ last = "connect"
  /\ txn = None
  /\ glycemic_index_ref = {}
  /\ conns = {}
  /\ run = 1
  /\ giName = None
  /\ giResults = <<>>
  /\ glIndex = None
  /\ glCarbs = None
  /\ glResults = <<>>
  /\ tester \in {idle_tester(use_ui_automator) : use_ui_automator \in BOOLEAN}

NextTester ==
  \/ \E image_path \in TestImages : \E started \in BOOLEAN :
       StartRecording(image_path, started)
  \/ \E in_app \in BOOLEAN : EnsureGemMunchActive(in_app)
  \/ \E returncode \in {0, 1} : CopyImageToDevice(returncode)
  \/ \E outcome \in {"True", "False", "raise"} : OpenGalleryAndSelectImage(outcome)
  \/ \E outcome \in {"success", "timeout", "raise"} : WaitForAnalysisCompletion(outcome)
  \/ CleanupDeviceImage
  \/ ExceptBlock
  \/ FinallyBlock
  \/ ReturnTestResult

SpecTester == InitTester /\ [][NextTester]_vars

(***************************************************************************)
(* The OpenFoodFacts importer with nutriment values of any JSON type       *)
(*                                                                         *)
(* In this specification a value of a nutrient column is a record of its   *)
(* type, as Python binds it and as SQLite stores it; a row keeps the name, *)
(* the source, calories and protein_g.                                     *)
(***************************************************************************)
\* A number, a string and a list, as the JSON of a product can hold them.
Number(n) == [type |-> "number", number |-> n, text |-> ""]
Text(s) == [type |-> "str", number |-> 0, text |-> s]
List == [type |-> "list", number |-> 0, text |-> ""]

Digits == "0123456789"

\* The text is a non-empty run of decimal digits.
IsDigits(s) ==
  /\ Len(s) > 0
  /\ \A i \in 1..Len(s) : \E d \in 1..10 : SubSeq(s, i, i) = SubSeq(Digits, d, d)

RECURSIVE ParseDigits(_)
\* The number a run of decimal digits denotes.
ParseDigits(s) ==
  IF Len(s) = 0 THEN 0
  ELSE 10 * ParseDigits(SubSeq(s, 1, Len(s) - 1))
         + (CHOOSE d \in 0..9 : SubSeq(s, Len(s), Len(s)) = SubSeq(Digits, d + 1, d + 1))

\* What a REAL column stores for a bound value: a text that is a number
\* literal is converted to the number, any other text is stored as text.  Of
\* the number literals the model has the runs of digits.
real_affinity(value) ==
  IF value.type = "str" /\ IsDigits(value.text) THEN Number(ParseDigits(value.text))
  ELSE value

\* sqlite3 binds numbers and strings; for a list (or a dict) execute raises
\* "Error binding parameter: type is not supported".
binds(value) == value.type \in {"number", "str"}

\* The values 'energy-kcal_100g' and 'proteins_100g' of a product can have:
\* no value, a number, a text that is no number, a text that is a number
\* literal, and a list.
EnergyInputs == {None, Some(Number(50)), Some(Text("abc")), Some(Text("12")), Some(List)}
ProteinInputs == {None, Some(Number(3)), Some(Text("abc")), Some(List)}

\* data['product'] with its nutriments
NutrimentProducts ==
  [product_name : {"Oat Bar"}, energy_kcal_100g : EnergyInputs, proteins_100g : ProteinInputs]

\* The rows _import_product adds for a product, none or one: food_data
\* without its None values, inserted if it has calories or protein_g, and
\* the INSERT fails as a whole if a value cannot be bound.
nutriment_row(product) ==
  LET name == strip(product.product_name)
      stored(v) == IF v = None THEN None ELSE Some(real_affinity(v[1]))
  IN IF name = "" THEN <<>>
     ELSE IF product.energy_kcal_100g = None /\ product.proteins_100g = None THEN <<>>
     ELSE IF \E v \in {product.energy_kcal_100g, product.proteins_100g} :
               v # None /\ ~binds(v[1])
     THEN <<>>
     ELSE <<[name |-> name,
             data_source |-> Some("OpenFoodFacts"),
             calories |-> stored(product.energy_kcal_100g),
             protein_g |-> stored(product.proteins_100g)]>>

\* import_by_barcode([barcode]), the fetch returning the product
ImportProductNutriments(product) ==
  /\ txn = None
  /\ Len(foods) < MaxRows
  /\ foods' = foods \o nutriment_row(product)
  /\ last' = "_import_product"
  /\ UNCHANGED <<clock, txn, glycemic_index_ref, conns, giVars, glVars, tester>>

NextNutriments == \E product \in NutrimentProducts : ImportProductNutriments(product)

SpecNutriments == Init /\ [][NextNutriments]_vars

(***************************************************************************)
(* The estimator called on its own                                         *)
(***************************************************************************)
\* Words the generated food names are made of.
Words ==
  {"Taco", "Tacos", "Steak", "Brown", "Rice", "Bowl", "Frosted", "Flakes",
   "Cheeseburgers", "Barbacoa"}

RECURSIVE JoinWords(_)
\* ' '.join(ws)
JoinWords(ws) ==
  IF Len(ws) = 1 THEN ws[1] ELSE ws[1] \o " " \o JoinWords(Tail(ws))

GeneratedNames ==
  {JoinWords(ws) : ws \in UNION {[1..n -> Words] : n \in 1..MaxWords}}

\* Names called for besides the generated ones: three-word names, a key of
\* the reference table, names that hold "bread" and no key, and the name
\* fix_taco_gi repairs.
ListedNames ==
  {"Brown Rice Bowl", "Dates", "Fried Rice Bowl", "Rye Flatbread", "Bread Bowl", "Rice Bread",
   "Tacos (beef, hard shell)"}

\* The arguments the estimator is called with: no name, the empty name, the
\* generated names and the listed names.
NameInputs ==
  {None, Some("")} \cup {Some(n) : n \in GeneratedNames \cup ListedNames}

\* One call find_gi_for_food(giName).
EstimateGI ==
  /\ Len(giResults) < MaxCalls
  /\ giResults' = Append(giResults, find_gi_for_food(giName))
  /\ UNCHANGED <<run, giName, storeVars, glVars, tester>>

\* The process ends and the script is started again: the module, and with
\* it the reference table, is loaded anew.
NewRun ==
  /\ run < MaxRuns
  /\ run' = run + 1
  /\ UNCHANGED <<giName, giResults, storeVars, glVars, tester>>

InitGI ==
  /\ foods = <<>>
  /\ clock = 0
  /\ last = "connect"
  /\ txn = None
  /\ glycemic_index_ref = {}
  /\ conns = {}
  /\ tester = idle_tester(FALSE)
  /\ run = 1
  /\ giName \in NameInputs
  /\ giResults = <<>>
  /\ glIndex = None
  /\ glCarbs = None
  /\ glResults = <<>>

NextGI == EstimateGI \/ NewRun

SpecGI == InitGI /\ [][NextGI]_vars

(***************************************************************************)
(* The calculator called on its own                                        *)
(***************************************************************************)
MaxIndex == 103     \* largest glycemic index given to the calculator

IndexInputs == {None} \cup {Some(g) : g \in 0..MaxIndex}
CarbInputs == {None} \cup {Some(c) : c \in (0 - MaxCarbs)..MaxCarbs}

\* One call calculate_glycemic_load(glIndex, glCarbs).
CalculateGlycemicLoad ==
  /\ glResults = <<>>
  /\ glResults' = <<calculate_glycemic_load(glIndex, glCarbs)>>
  /\ UNCHANGED <<glIndex, glCarbs, storeVars, giVars, tester>>

InitGL ==
  /\ foods = <<>>
  /\ clock = 0
  /\ last = "connect"
  /\ txn = None
  /\ glycemic_index_ref = {}
  /\ conns = {}
  /\ tester = idle_tester(FALSE)
  /\ run = 1
  /\ giName = None
  /\ giResults = <<>>
  /\ glIndex \in IndexInputs
  /\ glCarbs \in CarbInputs
  /\ glResults = <<>>

NextGL == CalculateGlycemicLoad

SpecGL == InitGL /\ [][NextGL]_vars

(***************************************************************************)
(* Properties of the calculator (checked under SpecGL)                     *)
(***************************************************************************)
\* C8: for a present index and a present carbohydrate amount the result is
\* index * carbs / 100 rounded to one decimal place: a one-decimal value at
\* most half a tenth away from the exact quotient; index 66 with 45 g gives
\* 29.7.
C8_LoadIsRoundedQuotient ==
  (glResults # <<>> /\ glIndex # None /\ glCarbs # None) =>
    /\ glResults[1] # None
    /\ LET diff == 10 * glResults[1][1] - glIndex[1] * glCarbs[1]
       IN -5 <= diff /\ diff <= 5
    /\ (glIndex = Some(66) /\ glCarbs = Some(45)) => glResults[1] = Some(297)

C8_Witness ==
  glIndex = Some(66) /\ glCarbs = Some(45) /\ glResults = <<Some(297)>>

\* C9: the result is absent exactly when the index is absent or the
\* carbohydrate amount is absent; an index of 0 and an amount of 0 are present.
C9_AbsentIffAnInputAbsent ==
  glResults # <<>> => (glResults[1] = None <=> (glIndex = None \/ glCarbs = None))

C9_Witness ==
  glIndex = Some(0) /\ glCarbs = Some(0) /\ glResults = <<Some(0)>>

\* C10: for a present index, a carbohydrate amount that is zero or negative
\* gives a load of exactly 0.
C10_NonPositiveCarbsGiveZeroLoad ==
  (glResults # <<>> /\ glIndex # None /\ glCarbs # None /\ glCarbs[1] <= 0) =>
    glResults[1] = Some(0)

(***************************************************************************)
(* Properties of the estimator (checked under SpecGI)                      *)
(***************************************************************************)
\* The result the ordered cascade prescribes for a lowercase name.
CascadeAllows(food_lower, result) ==
  LET words == split(food_lower)
      keys == 1..Len(GLYCEMIC_INDEX_MAP)
      key(i) == GLYCEMIC_INDEX_MAP[i][1]
      value(i) == GLYCEMIC_INDEX_MAP[i][2]
  IN IF \E i \in keys : key(i) = food_lower
     THEN \E i \in keys : key(i) = food_lower /\ result = Some(value(i))
     ELSE IF \E w \in 1..Len(words) : \E i \in keys : key(i) = words[w]
     THEN \E w \in 1..Len(words) :
            /\ \E i \in keys : key(i) = words[w] /\ result = Some(value(i))
            /\ \A v \in 1..(w - 1) : \A i \in keys : key(i) # words[v]
     ELSE IF \E i \in keys : Contains(key(i), food_lower)
     THEN \E i \in keys : Contains(key(i), food_lower) /\ result = Some(value(i))
     ELSE result = special_cases(food_lower)

\* C5: the first matching stage decides: the whole lowercase name as a key,
\* else the leftmost word that is a key, else a key that is a substring of
\* the name, else the fallback rules; "Taco" gives 52.
C5_FirstMatchingStageDecides ==
  \A c \in 1..Len(giResults) :
    (giName # None /\ giName # Some("")) =>
      /\ CascadeAllows(lower(giName[1]), giResults[c])
      /\ giName = Some("Taco") => giResults[c] = Some(52)

\* "Steak Taco": the word "taco" decides (52) although the key "tea", which
\* comes earlier in the table, is a substring of the name.
C5_Witness ==
  giName = Some("Steak Taco") /\ giResults = <<Some(52)>>

IdentityOf(kwargs) ==
  <<kwargs.name[1], kwargs.brand_name, kwargs.restaurant_name, kwargs.data_source>>

\* The columns that hold a record's values.
ValueColumns ==
  {"calories", "sodium_mg", "total_carbohydrate_g", "glycemic_index", "glycemic_load"}

\* C1: no two stored rows share the identity tuple (name, brand, restaurant,
\* source), absent brand or restaurant included.
C1_IdentityTupleUnique ==
  \A i, j \in 1..Len(foods) : Identity(foods[i]) = Identity(foods[j]) => i = j

\* C2: when a candidate is upserted onto a stored row of the same identity
\* tuple, every value the candidate does not supply is, in the rows of that
\* identity, what the stored row held.
C2_UpsertKeepsUnsuppliedValues ==
  [][\A kwargs \in Candidates :
       (kwargs.name # None /\ InsertFood(kwargs)) =>
         \A i \in 1..Len(foods) : \A j \in 1..Len(foods') :
           (Identity(foods[i]) = IdentityOf(kwargs)
              /\ Identity(foods'[j]) = IdentityOf(kwargs)) =>
             \A col \in ValueColumns :
               kwargs[col] = None => foods'[j][col] = foods[i][col]]_vars

\* C3: of two rows imported one after the other under one identity tuple, the
\* values of the later one are the values stored under that identity when the
\* duplicate removal of optimize_database has run.
C3_LaterImportSurvivesOptimize ==
  [][OptimizeDatabase =>
       \A h, i \in 1..Len(foods) :
         (/\ h < i
          /\ Identity(foods[h]) = Identity(foods[i])
          /\ \A j \in 1..Len(foods) : Identity(foods[j]) = Identity(foods[i]) => j <= i) =>
           \E k \in 1..Len(foods') :
             /\ Identity(foods'[k]) = Identity(foods[i])
             /\ \A col \in ValueColumns : foods'[k][col] = foods[i][col]]_vars

\* Two rows agree apart from the updated-at timestamp.
SameContent(row, other) == [row EXCEPT !.updated_at = 0] = [other EXCEPT !.updated_at = 0]

\* C4: upserting a candidate with a non-empty name a second time, the row of
\* its first upsert being stored, leaves the number of rows as it was, and
\* the rows of its identity with the content of the first upsert.
C4_SecondUpsertChangesNothing ==
  [][\A kwargs \in Candidates :
       (/\ kwargs.name # None
        /\ kwargs.name # Some("")
        /\ \E i \in 1..Len(foods) : SameContent(foods[i], insert_row(kwargs))
        /\ InsertFood(kwargs)) =>
         /\ Len(foods') = Len(foods)
         /\ \A j \in 1..Len(foods') :
              Identity(foods'[j]) = IdentityOf(kwargs) =>
                SameContent(foods'[j], insert_row(kwargs))]_vars

\* No stage of the cascade matches the name: it is empty, or no reference key
\* is a substring of its lowercase form (a key equal to the name or to a word
\* of it is one) and no fallback rule applies.
NoStageMatches(name) ==
  \/ Len(name) = 0
  \/ /\ \A i \in 1..Len(GLYCEMIC_INDEX_MAP) :
          ~Contains(GLYCEMIC_INDEX_MAP[i][1], lower(name))
     /\ special_cases(lower(name)) = None

\* NoStageMatches, tabulated over the names of stored rows
no_stage_matches == [name \in StoredNames |-> NoStageMatches(name)]

\* The estimator returns None, and no number, for a missing name, for the
\* empty name and for every stored name that no stage matches.
EstimatorAbsentWithoutMatch ==
  /\ find_gi_for_food(None) = None
  /\ find_gi_for_food(Some("")) = None
  /\ \A name \in StoredNames : no_stage_matches[name] => gi_for_name[name] = None

\* C7 as stated: the estimator returns None when no stage matches, and the
\* backfill pass leaves the glycemic index and the glycemic load of such a
\* row unchanged.
C7_BackfillLeavesUnmatchedRows ==
  [][/\ EstimatorAbsentWithoutMatch
     /\ UpdateDatabaseGI =>
          \A i \in 1..Len(foods) :
            no_stage_matches[foods[i].name] =>
              /\ foods'[i].glycemic_index = foods[i].glycemic_index
              /\ foods'[i].glycemic_load = foods[i].glycemic_load]_vars

\* C7 as amended: the estimator returns None when no stage matches, and the
\* backfill pass leaves the glycemic index of such a row unchanged; its load
\* is unchanged too, except for a row that holds an index and a carbohydrate
\* amount but no load, which gets the load derived from the two by the
\* closing update of the pass.
C7_BackfillLeavesUnmatchedIndex ==
  [][/\ EstimatorAbsentWithoutMatch
     /\ UpdateDatabaseGI =>
          \A i \in 1..Len(foods) :
            no_stage_matches[foods[i].name] =>
              /\ foods'[i].glycemic_index = foods[i].glycemic_index
              /\ IF /\ foods[i].glycemic_index # None
                    /\ foods[i].glycemic_load = None
                    /\ foods[i].total_carbohydrate_g # None
                 THEN foods'[i].glycemic_load =
                        Some(sql_round1(foods[i].glycemic_index[1]
                                          * foods[i].total_carbohydrate_g[1]))
                 ELSE foods'[i].glycemic_load = foods[i].glycemic_load]_vars

\* The backfill pass has run over a row named "Barbacoa", which no stage
\* matches, and the row has no glycemic index and no load.
C7_Witness ==
  /\ last = "update_database_gi"
  /\ no_stage_matches["Barbacoa"]
  /\ \E i \in 1..Len(foods) :
       /\ foods[i].name = "Barbacoa"
       /\ foods[i].glycemic_index = None
       /\ foods[i].glycemic_load = None

\* C15: two stored rows of the same name and of different sources both
\* remain, as two rows, after every step: no step merges, overwrites or
\* deletes one of them.
C15_SameNameOtherSourceBothRemain ==
  [][\A i, j \in 1..Len(foods) :
       (foods[i].name = foods[j].name
          /\ foods[i].data_source # foods[j].data_source) =>
         \E k, l \in 1..Len(foods') :
           /\ k # l
           /\ Identity(foods'[k]) = Identity(foods[i])
           /\ Identity(foods'[l]) = Identity(foods[j])]_vars

\* The identity tuple of the row the Chipotle import writes for an entry.
ChipotleIdentity(item) ==
  <<item.item_name, None, Some("Chipotle"), Some("Restaurant")>>

\* C16: an import changes no stored row whose identity tuple differs from
\* that of every candidate it imports.
C16_ImportLeavesOtherIdentitiesAlone ==
  [][/\ \A kwargs \in Candidates :
          (kwargs.name # None /\ InsertFood(kwargs)) =>
            \A i \in 1..Len(foods) :
              Identity(foods[i]) # IdentityOf(kwargs) =>
                i <= Len(foods') /\ foods'[i] = foods[i]
     /\ \A data \in ChipotleBatches :
          AddChipotleToDatabase(data) =>
            \A i \in 1..Len(foods) :
              (\A e \in 1..Len(data) : Identity(foods[i]) # ChipotleIdentity(data[e])) =>
                i <= Len(foods') /\ foods'[i] = foods[i]]_vars

\* The lowercase whitespace-separated tokens of the name, the brand and the
\* restaurant of a row, each once, joined by blanks.
TokenUnion(row) ==
  LET tokens(v) == IF v = None THEN {} ELSE SeqToSet(split(lower(v[1])))
  IN [sep |-> " ",
      terms |-> [w \in tokens(Some(row.name)) \cup tokens(row.brand_name)
                        \cup tokens(row.restaurant_name) |-> 1]]

\* C20: the search_terms of every stored row is the set of the lowercase
\* tokens of its name, brand and restaurant, each once and nothing else.
\* (No step changes the name, brand or restaurant of a stored row, so the
\* field is set when the row is inserted or updated by an import.)
C20_SearchTermsAreTokenUnion ==
  \A i \in 1..Len(foods) : foods[i].search_terms = Some(TokenUnion(foods[i]))

\* The entries of a Chipotle import have pairwise distinct names.
DistinctNames(data) ==
  \A i, j \in 1..Len(data) : data[i].item_name = data[j].item_name => i = j

\* What C23 says of the table after the import of data into an empty table:
\* one row for each entry, each with restaurant "Chipotle" and the source
\* tag of the Chipotle import.
OneChipotleRowEach(data, table) ==
  /\ Len(table) = Len(data)
  /\ \A i \in 1..Len(table) :
       /\ table[i].name = data[i].item_name
       /\ table[i].restaurant_name = Some("Chipotle")
       /\ table[i].data_source = Some("Restaurant")

CompleteItem(item) ==
  item.calories # None /\ item.sodium_mg # None /\ item.carbohydrates_g # None
    /\ item.tags # None

NutrientColumns == {"calories", "sodium_mg", "total_carbohydrate_g"}

\* C11: when load_common_foods_data inserts one candidate that has a name,
\* the row it adds holds NULL, not 0, in every nutrient column the candidate
\* does not supply.
C11_UnsuppliedNutrientsStoredAsNull ==
  [][\A data \in CommonFoodsInputs :
       (Len(data) = 1 /\ data[1].name # None /\ LoadCommonFoodsData(data)) =>
         /\ Len(foods') = Len(foods) + 1
         /\ \A col \in NutrientColumns :
              data[1][col] = None => foods'[Len(foods')][col] = None]_vars

\* The candidate that supplies only a name and a source has been inserted,
\* and its row reads back with every nutrient column NULL.
C11_Witness ==
  /\ last = "load_common_foods_data"
  /\ \E i \in 1..Len(foods) :
       /\ foods[i].name = "Dates"
       /\ foods[i].data_source = Some("Manual")
       /\ \A col \in NutrientColumns : foods[i][col] = None

\* A candidate without a usable name: the name is missing or is "".
Nameless(kwargs) == kwargs.name \in {None, Some("")}

\* C12: a candidate whose name is missing or empty is rejected as a whole:
\* a load of nameless candidates only leaves the foods table as it was, and
\* so does the fetch of a USDA food that has no description.
C12_NamelessCandidateRejected ==
  [][/\ \A data \in CommonFoodsInputs :
          (LoadCommonFoodsData(data) /\ \A i \in 1..Len(data) : Nameless(data[i]))
            => foods' = foods
     /\ \A food_data \in UsdaFoods :
          (FetchFoodDetails(food_data) /\ food_data.description = None)
            => foods' = foods]_vars

\* C14: every stored row that has a glycemic index, a glycemic load and a
\* carbohydrate value holds the load derived from its own index and
\* carbohydrate value, index x carbohydrate / 100 to one decimal (rounded as
\* Python or as SQLite rounds).
C14_StoredLoadIsDerived ==
  \A i \in 1..Len(foods) :
    LET row == foods[i]
    IN (row.glycemic_index # None /\ row.glycemic_load # None
          /\ row.total_carbohydrate_g # None) =>
         LET k == row.glycemic_index[1] * row.total_carbohydrate_g[1]
         IN row.glycemic_load[1] \in {py_round1(k), sql_round1(k)}

\* How many rows of a table equal the given row.
CountRows(table, row) == Cardinality({k \in 1..Len(table) : table[k] = row})

\* C17: the writes of a batch that failed part-way are not committed.  When
\* the USDA fetch has just failed, the last row of foods is a write of the
\* failed batch and the transaction it was written in is open; the step
\* that ends this transaction leaves no more copies of that row in the
\* committed table than the table held before the batch.
C17_FailedBatchCommitsNothing ==
  [][(last = "fetch_usda_foods_error" /\ txn # None /\ txn' = None) =>
       CountRows(foods', foods[Len(foods)]) <= CountRows(txn[1], foods[Len(foods)])]_vars

\* C22: when the fetch of a product fails, no row is stored for it.  The
\* rows a barcode import adds are rows of products whose lookup succeeded,
\* no more of them than lookups succeeded, and the rows stored before stay
\* as they are; a failed USDA request, for a food or for a page of foods,
\* leaves the table as it is.
C22_FailedFetchStoresNothing ==
  [][/\ \A positions \in BarcodeInputs :
          \A responses \in [1..Len(positions) -> Responses] :
            ImportByBarcode(positions, responses) =>
              LET fetched == {k \in 1..Len(positions) : responses[k] = "200"}
              IN /\ Len(foods') >= Len(foods)
                 /\ SubSeq(foods', 1, Len(foods)) = foods
                 /\ Len(foods') - Len(foods) <= Cardinality(fetched)
                 /\ \A a \in (Len(foods) + 1)..Len(foods') :
                      \E k \in fetched :
                        Some(foods'[a].name) = product_kwargs_of[positions[k]].name
     /\ (FetchFoodDetailsError \/ FetchUsdaFoodsError) =>
          foods' = foods /\ txn' = txn]_vars

\* A barcode import in which a lookup failed has ended, and the table holds
\* a row of a product whose lookup succeeded.
C22_Witness ==
  /\ last = "import_by_barcode, lookups failed"
  /\ \E i \in 1..Len(foods) : foods[i].data_source = Some("OpenFoodFacts")

(***************************************************************************)
(* Further properties of the estimator (checked under SpecGI)              *)
(***************************************************************************)
\* C13: every glycemic index the estimator returns is absent or an integer
\* between 0 and 100.
C13_IndexBetween0And100 ==
  \A c \in 1..Len(giResults) :
    giResults[c] = None \/ giResults[c][1] \in 0..100

\* C18: the estimator returns 68 for the name "Brown Rice Bowl".
C18_BrownRiceBowlGives68 ==
  giName = Some("Brown Rice Bowl") =>
    \A c \in 1..Len(giResults) : giResults[c] = Some(68)

\* The estimator was called on "Brown Rice Bowl" and returned 68: no word
\* of the name is a key and the key "brown rice" is a substring of it.
C18_Witness ==
  /\ giName = Some("Brown Rice Bowl")
  /\ giResults = <<Some(68)>>
  /\ word_match("brown rice bowl") = partial_match("brown rice bowl")

\* C19: the estimator returns 74 for the name "Frosted Flakes", and a key
\* of the reference table is one of its words or a substring of it.
C19_FrostedFlakesGives74 ==
  giName = Some("Frosted Flakes") =>
    \A c \in 1..Len(giResults) :
      /\ giResults[c] = Some(74)
      /\ \E i \in 1..Len(GLYCEMIC_INDEX_MAP) :
           Contains(GLYCEMIC_INDEX_MAP[i][1], "frosted flakes")

(***************************************************************************)
(* Properties of the importer's nutriment values (under SpecNutriments)    *)
(***************************************************************************)
\* The value is of a wrong type or is a text that is no number.
Malformed(value) == real_affinity(value).type # "number"

\* C21: when a product carries a malformed numeric field, the import stores
\* a row for it in which that field is NULL and every other field holds the
\* product's value.
C21_MalformedFieldAloneDropped ==
  [][\A product \in NutrimentProducts :
       (/\ ImportProductNutriments(product)
        /\ \E v \in {product.energy_kcal_100g, product.proteins_100g} :
             v # None /\ Malformed(v[1])) =>
         LET expected(v) == IF v = None \/ Malformed(v[1]) THEN None
                            ELSE Some(real_affinity(v[1]))
         IN /\ Len(foods') = Len(foods) + 1
            /\ foods'[Len(foods')].calories = expected(product.energy_kcal_100g)
            /\ foods'[Len(foods')].protein_g = expected(product.proteins_100g)]_vars

\* A fallback rule as the specification lists it: it applies to a name that
\* contains one of the terms in any and none of the terms in none; its value
\* is that of the first of its cases one of whose terms the name contains,
\* and otherwise if there is none.
Rule(any, none, cases, otherwise) ==
  [any |-> any, none |-> none, cases |-> cases, otherwise |-> otherwise]

\* The fallback rules in the listed order.
FallbackRules ==
  << Rule({"burger", "cheeseburger", "hamburger"}, {}, <<>>, 66),
     Rule({"pizza"}, {}, <<>>, 60),
     Rule({"fries", "french fries"}, {}, <<>>, 75),
     Rule({"salad"}, {"pasta"}, <<>>, 15),
     Rule({"grilled chicken", "grilled fish"}, {}, <<>>, 0),
     Rule({"donut", "doughnut"}, {}, <<>>, 76),
     Rule({"pancake"}, {}, <<>>, 67),
     Rule({"waffle"}, {}, <<>>, 76),
     Rule({"taco"}, {}, <<>>, 52),
     Rule({"burrito"}, {}, <<>>, 55),
     Rule({"sandwich"}, {}, << <<{"whole wheat", "whole grain"}, 54>> >>, 70),
     Rule({"wrap"}, {}, <<>>, 57),
     Rule({"rice"}, {}, << <<{"brown"}, 68>>, <<{"fried"}, 75>> >>, 73),
     Rule({"pasta", "spaghetti", "fettuccine"}, {}, <<>>, 49),
     Rule({"noodle"}, {}, << <<{"rice"}, 61>> >>, 55),
     Rule({"bread"}, {}, << <<{"whole wheat", "whole grain", "rye"}, 51>> >>, 75),
     Rule({"coffee"}, {"frapp"}, <<>>, 0),
     Rule({"tea"}, {"sweet"}, <<>>, 0),
     Rule({"soda", "cola", "pepsi", "sprite"}, {}, <<>>, 70),
     Rule({"juice"}, {}, <<>>, 50),
     Rule({"smoothie"}, {}, <<>>, 55),
     Rule({"shake"}, {}, <<>>, 61),
     Rule({"ice cream"}, {}, <<>>, 61),
     Rule({"cookie"}, {}, <<>>, 77),
     Rule({"cake"}, {}, <<>>, 73),
     Rule({"muffin"}, {}, <<>>, 71),
     Rule({"bagel"}, {}, <<>>, 72),
     Rule({"croissant"}, {}, <<>>, 67),
     Rule({"chips"}, {}, << <<{"potato"}, 56>>, <<{"tortilla"}, 63>> >>, 60),
     Rule({"wings", "chicken tender"}, {}, << <<{"fried", "buffalo"}, 70>> >>, 0),
     Rule({"soup"}, {}, << <<{"lentil", "bean"}, 30>> >>, 40),
     Rule({"pho"}, {}, <<>>, 40),
     Rule({"banh mi"}, {}, <<>>, 75) >>

\* The predicate of a rule holds for the lowercase name.
Applies(rule, food_lower) ==
  /\ \E term \in rule.any : Contains(term, food_lower)
  /\ \A term \in rule.none : ~Contains(term, food_lower)

\* The value of a rule for the lowercase name.
RuleValue(rule, food_lower) ==
  LET hits == {c \in 1..Len(rule.cases) :
                 \E term \in rule.cases[c][1] : Contains(term, food_lower)}
  IN IF hits = {} THEN rule.otherwise
     ELSE rule.cases[CHOOSE c \in hits : \A d \in hits : c <= d][2]

\* The value of the first rule, in the listed order, that applies; None if
\* no rule applies.
FirstRule(food_lower) ==
  LET hits == {i \in 1..Len(FallbackRules) : Applies(FallbackRules[i], food_lower)}
  IN IF hits = {} THEN None
     ELSE Some(RuleValue(FallbackRules[CHOOSE i \in hits : \A j \in hits : i <= j],
                         food_lower))

\* The rule for the term is the first that applies to the lowercase name.
FirstApplying(term, food_lower) ==
  \E i \in 1..Len(FallbackRules) :
    /\ term \in FallbackRules[i].any
    /\ Applies(FallbackRules[i], food_lower)
    /\ \A j \in 1..(i - 1) : ~Applies(FallbackRules[j], food_lower)

\* C24: when no reference key is a substring of the lowercase name (a key
\* equal to the name or to a word of it is one), the result is the value of
\* the first fallback rule that applies.  When that is the rule for "rice",
\* the result is 68 for a name with "brown" and 73 for a name with neither
\* "brown" nor "fried"; when it is the rule for "bread", the result is 51
\* for a name with "whole wheat", "whole grain" or "rye" and 75 otherwise.
C24_FirstFallbackRuleDecides ==
  \A c \in 1..Len(giResults) :
    (giName # None /\ giName # Some("")) =>
      LET n == lower(giName[1])
          has(term) == Contains(term, n)
      IN (\A i \in 1..Len(GLYCEMIC_INDEX_MAP) : ~Contains(GLYCEMIC_INDEX_MAP[i][1], n)) =>
           /\ giResults[c] = FirstRule(n)
           /\ (FirstApplying("rice", n) /\ has("brown")) => giResults[c] = Some(68)
           /\ (FirstApplying("rice", n) /\ ~has("brown") /\ ~has("fried"))
                => giResults[c] = Some(73)
           /\ FirstApplying("bread", n) =>
                giResults[c] = IF has("whole wheat") \/ has("whole grain") \/ has("rye")
                               THEN Some(51) ELSE Some(75)

\* "Rye Flatbread": no key is a substring of the name, the rule for "bread"
\* is the first that applies, and the name holds "rye": the call gave 51.
C24_Witness ==
  /\ giName = Some("Rye Flatbread")
  /\ giResults = <<Some(51)>>
  /\ \A i \in 1..Len(GLYCEMIC_INDEX_MAP) :
       ~Contains(GLYCEMIC_INDEX_MAP[i][1], "rye flatbread")

\* C25: for a name that contains "taco" and has no word equal to a reference
\* key, the estimator returns 52, whatever other keys are substrings of it.
C25_TacoNamesGive52 ==
  \A c \in 1..Len(giResults) :
    (giName # None /\ giName # Some("")) =>
      LET n == lower(giName[1])
          words == split(n)
      IN (Contains("taco", n) /\ \A w \in 1..Len(words) : ~InMap(words[w])) =>
           giResults[c] = Some(52)

(***************************************************************************)
(* Properties of the backfill pass (checked under SpecBackfill)            *)
(***************************************************************************)
\* C26: the backfill pass leaves the glycemic index of every row that holds
\* one before the pass, a stored 0 included, as it is.
C26_BackfillKeepsStoredIndex ==
  [][UpdateDatabaseGI =>
       \A i \in 1..Len(foods) :
         foods[i].glycemic_index # None =>
           foods'[i].glycemic_index = foods[i].glycemic_index]_vars

\* The pass assigns an index to the row: the row is selected (its index is
\* NULL or 0) and the estimator has a value for its name.
Assigned(row) ==
  /\ row.glycemic_index \in {None, Some(0)}
  /\ find_gi_for_food(Some(row.name)) # None

\* C27: after the backfill pass, every row the pass assigned an index to and
\* that has a carbohydrate value holds the load round(index x carbs / 100, 1),
\* which is 0 for zero carbohydrate; and every row with an index and a
\* carbohydrate value has a load.
C27_BackfillDerivesLoad ==
  [][UpdateDatabaseGI =>
       \A i \in 1..Len(foods) :
         /\ (Assigned(foods[i]) /\ foods[i].total_carbohydrate_g # None) =>
              /\ foods'[i].glycemic_index = find_gi_for_food(Some(foods[i].name))
              /\ foods'[i].glycemic_load =
                   Some(py_round1(foods'[i].glycemic_index[1]
                                    * foods[i].total_carbohydrate_g[1]))
              /\ foods[i].total_carbohydrate_g = Some(0) =>
                   foods'[i].glycemic_load = Some(0)
         /\ (foods'[i].glycemic_index # None /\ foods'[i].total_carbohydrate_g # None) =>
              foods'[i].glycemic_load # None]_vars

\* The pass has run over a taco row with zero carbohydrate: the row has the
\* index 52 and the load 0.
C27_Witness ==
  /\ last = "update_database_gi"
  /\ foods = <<BackfillRow("Taco", Some(0), Some(52), Some(0))>>

\* C28: a backfill pass that follows a backfill pass leaves the glycemic
\* index and the glycemic load of every row as they are.
C28_BackfillIdempotent ==
  [][(last = "update_database_gi" /\ UpdateDatabaseGI) =>
       /\ Len(foods') = Len(foods)
       /\ \A i \in 1..Len(foods) :
            /\ foods'[i].glycemic_index = foods[i].glycemic_index
            /\ foods'[i].glycemic_load = foods[i].glycemic_load]_vars

\* The pass has run over a table of two rows and has assigned the taco row
\* its index and load; a second pass starts from this state.
C28_Witness ==
  /\ last = "update_database_gi"
  /\ Len(foods) = 2
  /\ foods[1] = BackfillRow("Taco", Some(45), Some(52), Some(234))
  /\ ENABLED UpdateDatabaseGI

(***************************************************************************)
(* Properties of the scripts' connections (checked under SpecConnections)  *)
(***************************************************************************)
\* C29: every connection an import, fix or backfill operation opened is
\* closed when the operation ends, on every exit path (the early return for
\* a missing foods table and a raised exception included), so that no
\* operation has ended with its connection still open.
C29_ConnectionClosedOnEveryExit == conns = {}

(***************************************************************************)
(* Properties of the test runner (checked under SpecTester)                *)
(***************************************************************************)
\* C30: when test_single_image returns, on any exit path, the image it
\* pushed is no longer on the device and no screen recording is running.
C30_ReturnsWithImageRemovedAndRecordingStopped ==
  tester.pc = "return" =>
    /\ tester.image_path[1] \notin tester.device
    /\ ~tester.recording

====
